---- MODULE Spec2Model ----
(***************************************************************************)
(* BioVerify UI: the polling hooks usePolling and useAnalysis, and the     *)
(* ProgressPage that consumes useAnalysis.                                 *)
(*                                                                         *)
(* One component instance is observed.  It uses either usePolling or       *)
(* useAnalysis (variable hook).  A state update, the re-render it causes   *)
(* and the effects of that render are one atomic step.  Time is abstract:  *)
(* an interval timer may fire whenever it is active, and a probe may take  *)
(* arbitrarily long, so every interval/latency combination is covered.     *)
(* The server is seen through its answers only: a job's status never       *)
(* reverts from one answer to the next.                                    *)
(***************************************************************************)
EXTENDS Integers, Sequences, FiniteSets, TLC

\* Bounds of the model.
MaxEffects == 2      \* runs of the hook's effect (mount + dependency changes)
MaxInFlight == 2     \* probes simultaneously in the network

\* Analysis ids the consumer may track (useAnalysis' analysisId, or the job
\* that usePolling's fetchFn fetches).
Ids == {"A", "B"}

\* The ids are interchangeable names: the job tracked first is called "A".
FirstId == "A"

\* types/api.ts: JobStatus
JobStatus == {"queued", "running", "done", "failed"}

\* useState<...|null>(null): the null value of data / status
NoData == [analysis_id |-> "none", status |-> "null"]

\* useState<string|null>(null): the null value of error
NoError == [message |-> "null", analysis_id |-> "none", handle |-> 0]

\* AnalysisStatusResponse as far as the hooks read it
Response(id, st) == [analysis_id |-> id, status |-> st]

\* Error thrown by the api client for a probe of job id; handle records the
\* effect run whose probe failed
ErrorOf(id, g) ==
  [message |-> "Network error: Could not reach server", analysis_id |-> id,
   handle |-> g]

\* status?.status
StatusOf(s) == IF s = NoData THEN "undefined" ELSE s.status

VARIABLES
  hook,          \* "usePolling" or "useAnalysis": the hook of the observed component
  condition,     \* usePolling's stop condition: the set of statuses it accepts
  component,     \* "none" (not yet mounted), "mounted", "unmounted"
  usePolling,    \* state and refs of usePolling
  useAnalysis,   \* state of useAnalysis
  pollEffect,    \* closures of the runs of usePolling's effect, oldest first
  analysisEffect,\* closures of the runs of useAnalysis' effect, oldest first
  timers,        \* active interval timers (id = index of the effect run that set it)
  inflight,      \* probes issued and not yet settled, in issue order
  server,        \* server-side status of each job
  navigate,      \* targets of ProgressPage's navigate() calls, in order
  conditionArg,  \* the argument of the latest call of usePolling's condition
  resultPage,    \* ResultPage: route id, lifetime and state (analysis, isLoading, error)
  resultFetch,   \* ResultPage: its getAnalysis call and the answer to it
  resultRedirect, \* ResultPage: number of navigate() calls to the progress page
  metrics,       \* PipelineDiagram: its metrics prop
  stages,        \* PipelineDiagram: the stages it rendered (<<>>: not rendered)
  metricsSummary, \* LivenessPanel: its metricsSummary prop
  panel,         \* LivenessPanel: what it rendered
  evidence,      \* EvidenceViewer: its evidence prop
  imageErrors,   \* EvidenceViewer: the paths whose image failed to load
  apiCall,       \* ApiClient: a request and what axios made of it
  apiResult      \* ApiClient: what the request gave its caller

\* the polling hooks and ProgressPage
pollVars == <<hook, condition, component, usePolling, useAnalysis, pollEffect,
              analysisEffect, timers, inflight, server, navigate, conditionArg>>

\* the pages and panels that show a fetched job
resultVars == <<resultPage, resultFetch, resultRedirect>>

pipelineVars == <<metrics, stages>>

livenessVars == <<metricsSummary, panel>>

evidenceVars == <<evidence, imageErrors>>

apiVars == <<apiCall, apiResult>>

viewVars == <<resultVars, pipelineVars, livenessVars, evidenceVars, apiVars>>

vars == <<pollVars, viewVars>>

\* A probe on the wire: owner is the effect run whose closure issued it.
Probe(g, id) == [owner |-> g, id |-> id, resp |-> "pending"]

RemoveAt(s, i) == SubSeq(s, 1, i - 1) \o SubSeq(s, i + 1, Len(s))

----------------------------------------------------------------------------
\* Server: a job moves monotonically queued -> running -> done | failed.
\* server[id] is the status the job had at its latest answer; the job may
\* have advanced any number of steps when the next answer is produced.

NextStatus(st) ==
  CASE st = "queued" -> {"running", "failed"}
    [] st = "running" -> {"done", "failed"}
    [] OTHER -> {}

\* the statuses a job in status st may have from now on
LaterStatus(st) ==
  {st} \cup NextStatus(st) \cup UNION {NextStatus(n) : n \in NextStatus(st)}

\* The server answers the pending probe i with the job's status at that
\* moment, or the request fails (server error or network error).
Respond(i) ==
  /\ i \in 1..Len(inflight)
  /\ inflight[i].resp = "pending"
  /\ \/ \E st \in LaterStatus(server[inflight[i].id]) :
          /\ server' = [server EXCEPT ![inflight[i].id] = st]
          /\ inflight' = [inflight EXCEPT ![i].resp = st]
     \/ /\ inflight' = [inflight EXCEPT ![i].resp = "error"]
        /\ server' = server
  /\ UNCHANGED viewVars
  /\ UNCHANGED <<hook, condition, component, usePolling, useAnalysis, pollEffect,
                 analysisEffect, timers, navigate, conditionArg>>

----------------------------------------------------------------------------
\* usePolling (components/ResultCard.tsx)

\* PollResolved that neither sets shouldStopRef nor clears the interval
PollResolved_NeverStops(up, tms, result) ==
  [hook |-> [up EXCEPT !.data = result, !.isLoading = FALSE, !.error = NoError],
   timers |-> tms,
   called |-> result]

\* try-branch of poll() after the await, for a mounted effect; called is the
\* value condition() was called with (NoData: not called)
PollResolved(up, tms, result) ==
  LET shown == [up EXCEPT !.data = result, !.isLoading = FALSE, !.error = NoError]
  IN IF result.status \in condition
       THEN [hook |-> [shown EXCEPT !.shouldStopRef = TRUE],
             timers |-> tms \ {up.intervalRef},
             called |-> result]
       ELSE [hook |-> shown, timers |-> tms, called |-> result]

\* PollRejected that surfaces the error but keeps polling
PollRejected_KeepsPolling(up, tms, id, g) ==
  [hook |-> [up EXCEPT !.error = ErrorOf(id, g), !.isLoading = FALSE],
   timers |-> tms,
   called |-> NoData]

\* catch-branch of poll(), for a mounted effect
PollRejected(up, tms, id, g) ==
  [hook |-> [up EXCEPT !.error = ErrorOf(id, g), !.isLoading = FALSE,
                       !.shouldStopRef = TRUE],
   timers |-> tms \ {up.intervalRef},
   called |-> NoData]

\* the interval callback: does it call poll()?
PollingCallbackPolls(up) == ~up.shouldStopRef

\* a cleanup that leaves the interval timer running
PollingCleanup_KeepsTimer(effs, tms, up) ==
  [effects |-> IF Len(effs) = 0 THEN effs
               ELSE [effs EXCEPT ![Len(effs)].isMounted = FALSE],
   timers |-> tms]

\* the effect's cleanup function
PollingCleanup(effs, tms, up) ==
  [effects |-> IF Len(effs) = 0 THEN effs
               ELSE [effs EXCEPT ![Len(effs)].isMounted = FALSE],
   timers |-> tms \ {up.intervalRef}]

\* an initial fetch guarded by shouldStopRef, like the interval set-up
PollingInitialFetch_UnlessStopped(up) == ~up.shouldStopRef

\* does the effect body call poll() on start?
PollingInitialFetch(up) == TRUE

\* The effect runs: on mount, or after fetchFn changed (cleanup first).
UsePollingEffect(f) ==
  /\ hook = "usePolling"
  /\ component # "unmounted"
  /\ Len(pollEffect) < MaxEffects
  /\ Len(inflight) < MaxInFlight
  /\ Len(pollEffect) = 0 => f = FirstId
  /\ Len(pollEffect) > 0 => pollEffect[Len(pollEffect)].fetchFn # f
  /\ LET g == Len(pollEffect) + 1
         c == PollingCleanup(pollEffect, timers, usePolling)
     IN /\ pollEffect' = Append(c.effects, [isMounted |-> TRUE, fetchFn |-> f])
        /\ inflight' = IF PollingInitialFetch(usePolling)
                         THEN Append(inflight, Probe(g, f)) ELSE inflight
        /\ IF ~usePolling.shouldStopRef
             THEN /\ usePolling' = [usePolling EXCEPT !.intervalRef = g]
                  /\ timers' = c.timers \cup {g}
             ELSE /\ usePolling' = usePolling
                  /\ timers' = c.timers
  /\ component' = "mounted"
  /\ UNCHANGED viewVars
  /\ UNCHANGED <<hook, condition, useAnalysis, analysisEffect, server, navigate, conditionArg>>

UsePollingUnmount ==
  /\ hook = "usePolling"
  /\ component = "mounted"
  /\ LET c == PollingCleanup(pollEffect, timers, usePolling)
     IN /\ pollEffect' = c.effects
        /\ timers' = c.timers
  /\ component' = "unmounted"
  /\ UNCHANGED viewVars
  /\ UNCHANGED <<hook, condition, usePolling, useAnalysis, analysisEffect,
                 inflight, server, navigate, conditionArg>>

\* The interval timer t fires.
UsePollingTick(t) ==
  /\ hook = "usePolling"
  /\ t \in timers
  /\ IF PollingCallbackPolls(usePolling)
       THEN /\ Len(inflight) < MaxInFlight
            /\ inflight' = Append(inflight, Probe(t, pollEffect[t].fetchFn))
       ELSE inflight' = inflight
  /\ UNCHANGED viewVars
  /\ UNCHANGED <<hook, condition, component, usePolling, useAnalysis, pollEffect,
                 analysisEffect, timers, server, navigate, conditionArg>>

\* The promise of probe i settles and the rest of poll() runs.
UsePollingSettle(i) ==
  /\ hook = "usePolling"
  /\ i \in 1..Len(inflight)
  /\ inflight[i].resp # "pending"
  /\ LET p == inflight[i]
         r == IF p.resp = "error"
                THEN PollRejected(usePolling, timers, p.id, p.owner)
                ELSE PollResolved(usePolling, timers, Response(p.id, p.resp))
     IN /\ IF pollEffect[p.owner].isMounted
             THEN /\ usePolling' = r.hook
                  /\ timers' = r.timers
                  /\ conditionArg' = IF r.called = NoData THEN conditionArg
                                     ELSE r.called
             ELSE UNCHANGED <<usePolling, timers, conditionArg>>
  /\ inflight' = RemoveAt(inflight, i)
  /\ UNCHANGED viewVars
  /\ UNCHANGED <<hook, condition, component, useAnalysis, pollEffect,
                 analysisEffect, server, navigate>>

----------------------------------------------------------------------------
\* useAnalysis (hooks/useAnalysis.ts)

\* result.status === 'done' || result.status === 'failed'
IsTerminal(result) == result.status \in {"done", "failed"}

\* FetchStatusResolved without the clearInterval of the terminal branch
FetchStatusResolved_KeepsTimer(ua, tms, id, result) ==
  [hook |-> [ua EXCEPT !.status = result, !.isLoading = FALSE, !.error = NoError],
   timers |-> tms]

\* try-branch of fetchStatus() after the await, for a mounted effect whose
\* closure variable intervalId holds id
FetchStatusResolved(ua, tms, id, result) ==
  [hook |-> [ua EXCEPT !.status = result, !.isLoading = FALSE, !.error = NoError],
   timers |-> IF IsTerminal(result) THEN tms \ {id} ELSE tms]

\* catch-branch of fetchStatus(), for a mounted effect
FetchStatusRejected(ua, tms, id, job, g) ==
  [hook |-> [ua EXCEPT !.error = ErrorOf(job, g), !.isLoading = FALSE],
   timers |-> tms \ {id}]

\* the interval callback of the effect run with closure eff: does it call
\* fetchStatus()?  status is the value the closure captured.
AnalysisCallbackFetches(eff) ==
  /\ eff.isMounted
  /\ eff.status # NoData
  /\ eff.status.status # "done"
  /\ eff.status.status # "failed"

\* a cleanup that clears the interval but leaves isMounted set
AnalysisCleanup_KeepsMounted(effs, tms) ==
  [effects |-> effs,
   timers |-> IF Len(effs) = 0 THEN tms ELSE tms \ {effs[Len(effs)].intervalId}]

\* the effect's cleanup function
AnalysisCleanup(effs, tms) ==
  [effects |-> IF Len(effs) = 0 THEN effs
               ELSE [effs EXCEPT ![Len(effs)].isMounted = FALSE],
   timers |-> IF Len(effs) = 0 THEN tms ELSE tms \ {effs[Len(effs)].intervalId}]

\* ProgressPage's effect without its dependency array: it runs after every render
ProgressPageEffect_EveryRender(oldStatus, oldId, newStatus, newId, nav) ==
  IF StatusOf(newStatus) = "done" THEN Append(nav, newId) ELSE nav

\* ProgressPage's effect with dependencies [status?.status, id]: it runs
\* after the first render and after every render that changed a dependency.
ProgressPageEffect(oldStatus, oldId, newStatus, newId, nav) ==
  IF /\ (StatusOf(newStatus) # StatusOf(oldStatus) \/ newId # oldId)
     /\ StatusOf(newStatus) = "done"
    THEN Append(nav, newId)
    ELSE nav

\* the analysisId the consumer currently passes ("none" before the mount)
AnalysisId ==
  IF Len(analysisEffect) = 0 THEN "none"
  ELSE analysisEffect[Len(analysisEffect)].analysisId

\* The effect runs: on mount, or after analysisId changed (cleanup first).
\* Once ProgressPage has navigated to the result page the route is left, so
\* the id of the progress route no longer changes.
UseAnalysisEffect(id) ==
  /\ hook = "useAnalysis"
  /\ component # "unmounted"
  /\ navigate = <<>>
  /\ Len(analysisEffect) < MaxEffects
  /\ Len(inflight) < MaxInFlight
  /\ Len(analysisEffect) = 0 => id = FirstId
  /\ AnalysisId # id
  /\ LET g == Len(analysisEffect) + 1
         c == AnalysisCleanup(analysisEffect, timers)
     IN /\ analysisEffect' = Append(c.effects,
               [isMounted |-> TRUE, intervalId |-> g,
                status |-> useAnalysis.status, analysisId |-> id])
        /\ inflight' = Append(inflight, Probe(g, id))
        /\ timers' = c.timers \cup {g}
  /\ navigate' = ProgressPageEffect(useAnalysis.status, AnalysisId,
                                    useAnalysis.status, id, navigate)
  /\ component' = "mounted"
  /\ UNCHANGED viewVars
  /\ UNCHANGED <<hook, condition, usePolling, useAnalysis, pollEffect, server, conditionArg>>

UseAnalysisUnmount ==
  /\ hook = "useAnalysis"
  /\ component = "mounted"
  /\ LET c == AnalysisCleanup(analysisEffect, timers)
     IN /\ analysisEffect' = c.effects
        /\ timers' = c.timers
  /\ component' = "unmounted"
  /\ UNCHANGED viewVars
  /\ UNCHANGED <<hook, condition, usePolling, useAnalysis, pollEffect,
                 inflight, server, navigate, conditionArg>>

\* The interval timer t fires.
UseAnalysisTick(t) ==
  /\ hook = "useAnalysis"
  /\ t \in timers
  /\ IF AnalysisCallbackFetches(analysisEffect[t])
       THEN /\ Len(inflight) < MaxInFlight
            /\ inflight' = Append(inflight, Probe(t, analysisEffect[t].analysisId))
       ELSE inflight' = inflight
  /\ UNCHANGED viewVars
  /\ UNCHANGED <<hook, condition, component, usePolling, useAnalysis, pollEffect,
                 analysisEffect, timers, server, navigate, conditionArg>>

\* The promise of probe i settles and the rest of fetchStatus() runs; the
\* component re-renders and ProgressPage's effect sees the new status.
UseAnalysisSettle(i) ==
  /\ hook = "useAnalysis"
  /\ i \in 1..Len(inflight)
  /\ inflight[i].resp # "pending"
  /\ LET p == inflight[i]
         eff == analysisEffect[p.owner]
         r == IF p.resp = "error"
                THEN FetchStatusRejected(useAnalysis, timers, eff.intervalId, p.id,
                                         p.owner)
                ELSE FetchStatusResolved(useAnalysis, timers, eff.intervalId,
                                         Response(p.id, p.resp))
     IN /\ IF eff.isMounted
             THEN /\ useAnalysis' = r.hook
                  /\ timers' = r.timers
                  /\ navigate' = ProgressPageEffect(useAnalysis.status, AnalysisId,
                                                    r.hook.status, AnalysisId, navigate)
             ELSE UNCHANGED <<useAnalysis, timers, navigate>>
  /\ inflight' = RemoveAt(inflight, i)
  /\ UNCHANGED viewVars
  /\ UNCHANGED <<hook, condition, component, usePolling, pollEffect,
                 analysisEffect, server, conditionArg>>

----------------------------------------------------------------------------
\* ResultPage (pages/ResultPage.tsx) and the sections of ResultCard

\* JobResult as far as ResultPage and ResultCard read it: is result_json
\* there, and does it carry metrics / metrics_summary
NoResult == [present |-> FALSE, metrics |-> FALSE, metrics_summary |-> FALSE]

ResultJsons ==
  {NoResult} \cup
  {[present |-> TRUE, metrics |-> m, metrics_summary |-> ms] :
      m \in BOOLEAN, ms \in BOOLEAN}

\* useState<AnalysisStatusResponse | null>(null)
NoAnalysis == [status |-> "null", result_json |-> NoResult]

\* no answer yet
NoAnswer == [ok |-> FALSE, status |-> "null", result_json |-> NoResult,
             message |-> "null"]

\* the answers to GET /analyses/{id}: a job, or an error of the api client
Answers ==
  {[ok |-> TRUE, status |-> st, result_json |-> rj, message |-> "null"] :
      st \in JobStatus, rj \in ResultJsons}
  \cup
  {[ok |-> FALSE, status |-> "null", result_json |-> NoResult, message |-> msg] :
      msg \in {"Network error: Could not reach server", "API Error: 404"}}

\* the render branches without the result_json test
ResultPageView_NoGuard(rp) ==
  IF rp.id = "none" THEN "invalidId"
  ELSE IF rp.isLoading THEN "loading"
  ELSE IF rp.error # "null" THEN "error"
  ELSE IF rp.analysis = NoAnalysis THEN "noResults"
  ELSE "resultCard"

\* the render branches of ResultPage, in the order of the code
ResultPageView(rp) ==
  IF rp.id = "none" THEN "invalidId"
  ELSE IF rp.isLoading THEN "loading"
  ELSE IF rp.error # "null" THEN "error"
  ELSE IF rp.analysis = NoAnalysis \/ ~rp.analysis.result_json.present
         THEN "noResults"
  ELSE "resultCard"

\* the optional sections ResultCard renders for a result
ResultCardSections(result) ==
  (IF result.metrics THEN {"PipelineDiagram"} ELSE {}) \cup
  (IF result.metrics_summary THEN {"LivenessPanel"} ELSE {})

\* The page is mounted for the route parameter id ("none": no id) and its
\* effect runs.
ResultPageMount(id) ==
  /\ resultPage.mounted = "none"
  /\ IF id = "none"
       THEN /\ resultPage' = [resultPage EXCEPT !.id = id, !.mounted = "mounted",
                                !.error = "Invalid analysis ID", !.isLoading = FALSE]
            /\ resultFetch' = resultFetch
       ELSE /\ resultPage' = [resultPage EXCEPT !.id = id, !.mounted = "mounted"]
            /\ resultFetch' = [state |-> "pending", resp |-> NoAnswer]
  /\ UNCHANGED resultRedirect
  /\ UNCHANGED <<pollVars, pipelineVars, livenessVars, evidenceVars, apiVars>>

\* The server answers the fetch.
ResultPageRespond(a) ==
  /\ resultFetch.state = "pending"
  /\ resultFetch' = [state |-> "answered", resp |-> a]
  /\ UNCHANGED <<resultPage, resultRedirect>>
  /\ UNCHANGED <<pollVars, pipelineVars, livenessVars, evidenceVars, apiVars>>

\* a fetchAnalysis() that navigates to the progress page for every fetched job
ResultPageSettle_AlwaysRedirects ==
  /\ resultFetch.state = "answered"
  /\ LET a == resultFetch.resp
         shown == IF a.ok
                    THEN [resultPage EXCEPT
                            !.analysis = [status |-> a.status,
                                          result_json |-> a.result_json],
                            !.isLoading = FALSE]
                    ELSE [resultPage EXCEPT !.error = a.message,
                                            !.isLoading = FALSE]
         redirects == a.ok
     IN /\ resultPage' =
             IF resultPage.mounted # "mounted" THEN resultPage
             ELSE IF redirects THEN [shown EXCEPT !.mounted = "unmounted"]
             ELSE shown
        /\ resultRedirect' = IF redirects THEN resultRedirect + 1
                             ELSE resultRedirect
  /\ resultFetch' = [resultFetch EXCEPT !.state = "settled"]
  /\ UNCHANGED <<pollVars, pipelineVars, livenessVars, evidenceVars, apiVars>>

\* The promise settles and the rest of fetchAnalysis() runs.  There is no
\* cancellation: after an unmount the state updates are dropped by React
\* but navigate() is still called.
ResultPageSettle ==
  /\ resultFetch.state = "answered"
  /\ LET a == resultFetch.resp
         shown == IF a.ok
                    THEN [resultPage EXCEPT
                            !.analysis = [status |-> a.status,
                                          result_json |-> a.result_json],
                            !.isLoading = FALSE]
                    ELSE [resultPage EXCEPT !.error = a.message,
                                            !.isLoading = FALSE]
         redirects == a.ok /\ a.status # "done"
     IN /\ resultPage' =
             IF resultPage.mounted # "mounted" THEN resultPage
             ELSE IF redirects THEN [shown EXCEPT !.mounted = "unmounted"]
             ELSE shown
        /\ resultRedirect' = IF redirects THEN resultRedirect + 1
                             ELSE resultRedirect
  /\ resultFetch' = [resultFetch EXCEPT !.state = "settled"]
  /\ UNCHANGED <<pollVars, pipelineVars, livenessVars, evidenceVars, apiVars>>

\* The user leaves the result route.
ResultPageUnmount ==
  /\ resultPage.mounted = "mounted"
  /\ resultPage' = [resultPage EXCEPT !.mounted = "unmounted"]
  /\ UNCHANGED <<resultFetch, resultRedirect>>
  /\ UNCHANGED <<pollVars, pipelineVars, livenessVars, evidenceVars, apiVars>>

----------------------------------------------------------------------------
\* PipelineDiagram (components/PipelineDiagram.tsx): the stage deriver

\* largest count (windows, frames, samples, seconds) in a payload
MaxCount == 2

Regions == {"forehead", "cheeks"}

StageStatus == {"ok", "warning", "fail"}

\* A JSON object is a function from the names of the fields it has; the
\* object without fields:
EmptyObject == [f \in {} |-> 0]

Counts == 0..MaxCount

\* o.f ?? d, and with o == Get(m, "sub", EmptyObject) also m.sub?.f ?? d
Get(o, f, d) == IF f \in DOMAIN o THEN o[f] ELSE d

\* the objects with some of the fields fs, each with a value of vals
ObjectsOver(fs, vals) == UNION {[d -> vals] : d \in SUBSET fs}

\* values of face.windows: an array of n windows, or (malformed) a value
\* that is no array but has a length, like a string
WindowsValues == {[isArray |-> a, length |-> n] : a \in BOOLEAN, n \in Counts}

\* a default of one window
EmptyArray_OneWindow == [isArray |-> TRUE, length |-> 1]

\* the default of `m.face?.windows ?? []`
EmptyArray == [isArray |-> TRUE, length |-> 0]

IngestObjects == ObjectsOver({"num_windows"}, Counts)

FaceObjects == ObjectsOver({"windows"}, WindowsValues)

RoiObjects == ObjectsOver({"total_frames", "frames_with_all_regions_valid"}, Counts)

RppgObjects ==
  {EmptyObject}
  \cup {[duration_seconds |-> d] : d \in Counts}
  \cup {[samples_per_region |-> sm] : sm \in ObjectsOver(Regions, Counts)}
  \cup {[duration_seconds |-> d, samples_per_region |-> sm] :
          d \in Counts, sm \in ObjectsOver(Regions, Counts)}

\* a payload part: the sub-object name is missing, or is one of objs
Optional(name, objs) == {EmptyObject} \cup {[f \in {name} |-> o] : o \in objs}

\* the payload made of its four parts, each of which may be missing
PipelineMetrics(ingest, face, roi, rppg) == ingest @@ face @@ roi @@ rppg

\* Object.values(samples).reduce((a, b) => a + (b ?? 0), 0)
RECURSIVE TotalSamples(_)
TotalSamples(samples) ==
  IF DOMAIN samples = {} THEN 0
  ELSE LET r == CHOOSE x \in DOMAIN samples : TRUE
       IN samples[r] + TotalSamples([x \in DOMAIN samples \ {r} |-> samples[x]])

\* an ingest stage that warns when there is no window
getIngestStage_Warns(m) ==
  LET n == Get(Get(m, "ingest", EmptyObject), "num_windows", 0)
  IN [id |-> "ingest", status |-> IF n >= 1 THEN "ok" ELSE "warning"]

getIngestStage(m) ==
  LET n == Get(Get(m, "ingest", EmptyObject), "num_windows", 0)
  IN [id |-> "ingest", status |-> IF n >= 1 THEN "ok" ELSE "fail"]

\* a face stage that reads m.face.windows.length without `?.` and `?? []`
getFaceStage_NoDefault(m) ==
  IF "face" \notin DOMAIN m \/ "windows" \notin DOMAIN m.face
    THEN [id |-> "face", status |-> "TypeError"]
    ELSE LET windows == m.face.windows
             n == IF windows.isArray THEN windows.length ELSE 0
         IN [id |-> "face", status |-> IF n >= 1 THEN "ok" ELSE "fail"]

getFaceStage(m) ==
  LET windows == Get(Get(m, "face", EmptyObject), "windows", EmptyArray)
      n == IF windows.isArray THEN windows.length ELSE 0
  IN [id |-> "face", status |-> IF n >= 1 THEN "ok" ELSE "fail"]

\* a ROI stage that tests allValid >= 0
getRoiStage_NoWarning(m) ==
  LET roi == Get(m, "roi", EmptyObject)
      total == Get(roi, "total_frames", 0)
      allValid == Get(roi, "frames_with_all_regions_valid", 0)
  IN [id |-> "roi",
      status |-> IF total = 0 THEN "fail"
                 ELSE IF allValid >= 0 THEN "ok"
                 ELSE "warning"]

getRoiStage(m) ==
  LET roi == Get(m, "roi", EmptyObject)
      total == Get(roi, "total_frames", 0)
      allValid == Get(roi, "frames_with_all_regions_valid", 0)
  IN [id |-> "roi",
      status |-> IF total = 0 THEN "fail"
                 ELSE IF allValid > 0 THEN "ok"
                 ELSE "warning"]

\* an rPPG stage that warns when either the duration or the samples are 0
getRppgStage_WarnsEither(m) ==
  LET rppg == Get(m, "rppg", EmptyObject)
      duration == Get(rppg, "duration_seconds", 0)
      samples == Get(rppg, "samples_per_region", EmptyObject)
      totalSamples == TotalSamples(samples)
  IN [id |-> "rppg",
      status |-> IF duration > 0 /\ totalSamples > 0 THEN "ok"
                 ELSE IF duration = 0 \/ totalSamples = 0 THEN "warning"
                 ELSE "fail"]

getRppgStage(m) ==
  LET rppg == Get(m, "rppg", EmptyObject)
      duration == Get(rppg, "duration_seconds", 0)
      samples == Get(rppg, "samples_per_region", EmptyObject)
      totalSamples == TotalSamples(samples)
  IN [id |-> "rppg",
      status |-> IF duration > 0 /\ totalSamples > 0 THEN "ok"
                 ELSE IF duration = 0 /\ totalSamples = 0 THEN "warning"
                 ELSE "fail"]

\* const stages: Stage[] = [...]
\* a deriver that stops at the first failed stage: the later ones fail
PipelineDiagram_ShortCircuit(m) ==
  LET ingest == getIngestStage(m)
      face == IF ingest.status = "fail" THEN [id |-> "face", status |-> "fail"]
              ELSE getFaceStage(m)
      roi == IF face.status = "fail" THEN [id |-> "roi", status |-> "fail"]
             ELSE getRoiStage(m)
      rppg == IF roi.status = "fail" THEN [id |-> "rppg", status |-> "fail"]
              ELSE getRppgStage(m)
  IN <<ingest, face, roi, rppg>>

\* const stages: Stage[] = [...]
PipelineDiagram(m) ==
  <<getIngestStage(m), getFaceStage(m), getRoiStage(m), getRppgStage(m)>>

\* no PipelineDiagram is shown
PipelineIdle == metrics = EmptyObject /\ stages = <<>>

\* ResultCard renders PipelineDiagram with the metrics of the result.
PipelineRender ==
  /\ stages = <<>>
  /\ stages' = PipelineDiagram(metrics)
  /\ UNCHANGED metrics
  /\ UNCHANGED <<pollVars, resultVars, livenessVars, evidenceVars, apiVars>>

----------------------------------------------------------------------------
\* LivenessPanel (components/LivenessPanel.tsx; its source is in
\* src/ui/README.md from line 92 on)

\* Scores, thresholds and feature values are in hundredths: 70 is 0.7.
\* The values of [0, 1] that are tried: Steps + 1 of them, evenly spread.
Steps == 20

Values == {(100 * k) \div Steps : k \in 0..Steps}

FeatureKeys == {"hr_plausibility"}

\* LivenessFeatureDetail; its weight is printed and not used otherwise
FeatureDetails == {[value |-> v] : v \in Values}

\* the gate factors and base scores that are tried
GateFactors == {0, 60, 100}

BaseScores == {80}

\* ScoringBreakdown, made of its parts: liveness_score, tau_auth,
\* features, gate_factor and base_score, each of which may be missing
ScoringBreakdown(liveness_score, tau_auth, features, gate_factor, base_score) ==
  liveness_score @@ tau_auth @@ features @@ gate_factor @@ base_score

\* MetricsSummary.features.liveness, an object
SomeLiveness == [hr_plausibility |-> 100]

\* MetricsSummary, made of its parts scoring and features
MetricsSummary(scoring, features) == scoring @@ features

\* Object.entries(features).map(...)
RECURSIVE Entries(_)
Entries(features) ==
  IF DOMAIN features = {} THEN <<>>
  ELSE LET key == CHOOSE k \in DOMAIN features : TRUE
       IN <<[label |-> key, value |-> features[key].value]>>
          \o Entries([k \in DOMAIN features \ {key} |-> features[k]])

getFeatureBars(ms) ==
  LET scoring == Get(ms, "scoring", EmptyObject)
  IN IF "features" \notin DOMAIN scoring THEN <<>>
     ELSE Entries(scoring.features)

\* a bar color with 0.5 as its middle threshold
barColor_Half(value) ==
  IF value >= 70 THEN "bg-emerald-500"
  ELSE IF value >= 50 THEN "bg-amber-500"
  ELSE "bg-red-500"

barColor(value) ==
  IF value >= 70 THEN "bg-emerald-500"
  ELSE IF value >= 40 THEN "bg-amber-500"
  ELSE "bg-red-500"

\* a label that is Strong only above 0.7
valueLabel_Above(value) ==
  IF value > 70 THEN "Strong"
  ELSE IF value >= 40 THEN "Moderate"
  ELSE IF value > 0 THEN "Weak"
  ELSE "None"

valueLabel(value) ==
  IF value >= 70 THEN "Strong"
  ELSE IF value >= 40 THEN "Moderate"
  ELSE IF value > 0 THEN "Weak"
  ELSE "None"

\* the class of the label badge of a bar
badgeColor(value) ==
  IF value >= 70 THEN "text-emerald-400"
  ELSE IF value >= 40 THEN "text-amber-400"
  ELSE "text-red-400"

\* nothing rendered yet
NoPanel == [view |-> "none", score |-> <<>>, bars |-> <<>>]

\* What LivenessPanel returns: null, or the panel with the block of the
\* overall score (when there is a liveness_score; the gating message and
\* the base score are inside this block) and one row per bar.
LivenessPanel(ms) ==
  LET bars == getFeatureBars(ms)
      hasLiveness == "liveness" \in DOMAIN Get(ms, "features", EmptyObject)
      scoring == Get(ms, "scoring", EmptyObject)
  IN IF Len(bars) = 0 /\ ~hasLiveness
       THEN [view |-> "null", score |-> <<>>, bars |-> <<>>]
       ELSE [view |-> "panel",
             score |->
               IF "liveness_score" \in DOMAIN scoring
                 THEN <<[value |-> scoring.liveness_score,
                         color |-> IF scoring.liveness_score >=
                                        Get(scoring, "tau_auth", 45)
                                     THEN "bg-emerald-500" ELSE "bg-red-500",
                         thresholdMark |-> "tau_auth" \in DOMAIN scoring,
                         gateMessage |-> /\ "gate_factor" \in DOMAIN scoring
                                         /\ scoring.gate_factor < 100,
                         baseScore |->
                           IF /\ "gate_factor" \in DOMAIN scoring
                              /\ scoring.gate_factor < 100
                              /\ "base_score" \in DOMAIN scoring
                             THEN <<scoring.base_score>> ELSE <<>>]>>
                 ELSE <<>>,
             bars |-> [k \in 1..Len(bars) |->
                         [label |-> bars[k].label,
                          value |-> bars[k].value,
                          badge |-> badgeColor(bars[k].value),
                          valueLabel |-> valueLabel(bars[k].value),
                          bar |-> barColor(bars[k].value)]]]

\* no LivenessPanel is shown
LivenessIdle == metricsSummary = EmptyObject /\ panel = NoPanel

\* ResultCard renders LivenessPanel with the metrics_summary of the result.
LivenessRender ==
  /\ panel = NoPanel
  /\ panel' = LivenessPanel(metricsSummary)
  /\ UNCHANGED metricsSummary
  /\ UNCHANGED <<pollVars, resultVars, pipelineVars, evidenceVars, apiVars>>

----------------------------------------------------------------------------
\* EvidenceViewer (components/EvidenceViewer.tsx)

\* longest list of paths of one artifact category
MaxPaths == 2

\* the paths of images, and the path of the summary
Paths == {"a.png", "b.png"}

SummaryPath == "summary.json"

\* the signed URL the server gives for a path, when it gives one
SignedUrls ==
  [p \in Paths \cup {SummaryPath} |->
     IF p = "a.png" THEN "https://x/a"
     ELSE IF p = "b.png" THEN "https://x/b"
     ELSE "https://x/summary"]

\* string[] of an artifact category; a path may be listed twice
PathLists == UNION {[1..n -> Paths] : n \in 0..MaxPaths}

ImageCategories == {"roi_masks", "rppg_traces", "rppg_spectra"}

\* EvidenceResponse: the artifact categories of the index are optional,
\* signed_urls has an entry for some of the paths
EvidenceResponse(roi_masks, rppg_traces, rppg_spectra, summary, resolved) ==
  [index |-> [artifacts |-> roi_masks @@ rppg_traces @@ rppg_spectra @@ summary],
   signed_urls |-> [p \in resolved |-> SignedUrls[p]]]

\* a handler that keeps only the latest failure
handleImageError_Forgets(prev, url) == {url}

\* setImageErrors((prev) => new Set(prev).add(url))
handleImageError(prev, url) == prev \cup {url}

\* paths.map(...) without the entries that return null: the paths with a
\* signed URL whose image did not fail, in the order of the index
RenderedEntries(paths, ev, errors) ==
  LET Shown(path) == path \in DOMAIN ev.signed_urls /\ path \notin errors
      shown == SelectSeq(paths, Shown)
  IN [k \in 1..Len(shown) |-> [path |-> shown[k], url |-> ev.signed_urls[shown[k]]]]

\* What EvidenceViewer renders of the evidence: per image category no
\* section ("none"), a section with entries, or (roi_masks only) the
\* notice that no signed URL is available; for the summary no section, the
\* download link, or the path as text; and the notice of an empty index.
EvidenceViewer(ev, errors) ==
  LET artifacts == ev.index.artifacts
      paths(category) == Get(artifacts, category, <<>>)
      Section(category) ==
        IF Len(paths(category)) = 0
          THEN [section |-> "none", entries |-> <<>>]
          ELSE [section |-> "entries",
                entries |-> RenderedEntries(paths(category), ev, errors)]
      validMasks == RenderedEntries(paths("roi_masks"), ev, errors)
  IN [roi_masks |->
        IF Len(paths("roi_masks")) > 0 /\ Len(validMasks) = 0
          THEN [section |-> "unavailable", entries |-> <<>>]
          ELSE Section("roi_masks"),
      rppg_traces |-> Section("rppg_traces"),
      rppg_spectra |-> Section("rppg_spectra"),
      summary |->
        IF "summary" \notin DOMAIN artifacts THEN "none"
        ELSE IF artifacts.summary \in DOMAIN ev.signed_urls THEN "link"
        ELSE "path",
      empty |-> DOMAIN artifacts = {}]

\* the paths of the images on display
RenderedPaths(ev, errors) ==
  LET view == EvidenceViewer(ev, errors)
  IN UNION {{view[c].entries[k].path : k \in 1..Len(view[c].entries)} :
              c \in ImageCategories}

\* no EvidenceViewer is shown
EvidenceIdle ==
  /\ evidence = EvidenceResponse(EmptyObject, EmptyObject, EmptyObject, EmptyObject, {})
  /\ imageErrors = {}

\* An image on display fails to load: onError calls handleImageError.
EvidenceImageError(path) ==
  /\ path \in RenderedPaths(evidence, imageErrors)
  /\ imageErrors' = handleImageError(imageErrors, path)
  /\ UNCHANGED evidence
  /\ UNCHANGED <<pollVars, resultVars, pipelineVars, livenessVars, apiVars>>

----------------------------------------------------------------------------
\* ApiClient (services/api.ts): the response interceptor

ApiMethods == {"uploadVideo", "getAnalysis", "getEvidence", "listAnalyses", "getHealth"}

\* HTTP statuses of error responses
ErrorStatuses == {400, 401, 404, 422, 500}

\* the strings a response body or an axios error carries; "" is the empty
\* string, which `||` skips
Texts == {"", "Job not found"}

OtherTexts == {"", "Internal error"}

\* response.data of an error response: no body, or an object that may have
\* error_message and message
ErrorBodies ==
  {[hasData |-> FALSE, data |-> EmptyObject]} \cup
  {[hasData |-> TRUE, data |-> em @@ msg] :
     em \in Optional("error_message", Texts),
     msg \in Optional("message", OtherTexts)}

\* what axios makes of a request: a response that is passed on, or an
\* error with a response, with a request only, or with neither
AxiosOutcomes ==
  {[kind |-> "success", status |-> 200, body |-> [hasData |-> FALSE, data |-> EmptyObject],
    message |-> ""]}
  \cup {[kind |-> "response", status |-> st, body |-> b, message |-> ""] :
          st \in ErrorStatuses, b \in ErrorBodies}
  \cup {[kind |-> "request", status |-> 0, body |-> [hasData |-> FALSE, data |-> EmptyObject],
         message |-> "Network Error"]}
  \cup {[kind |-> "setup", status |-> 0, body |-> [hasData |-> FALSE, data |-> EmptyObject],
         message |-> m] : m \in {"", "Request aborted"}}

\* the message of an Error; status is 0 except in `API Error: ${status}`
Message(text, status) == [text |-> text, status |-> status]

\* a || b for strings: a unless it is undefined or empty
OrElse(o, f, rest) == IF f \in DOMAIN o /\ o[f] # "" THEN Message(o[f], 0) ELSE rest

\* an interceptor that looks at data.message first
ErrorInterceptor_MessageFirst(error) ==
  IF error.kind = "response"
    THEN OrElse(error.body.data, "message",
           OrElse(error.body.data, "error_message",
             Message("API Error: ", error.status)))
  ELSE IF error.kind = "request"
    THEN Message("Network error: Could not reach server", 0)
  ELSE IF error.message # "" THEN Message(error.message, 0)
  ELSE Message("An unexpected error occurred", 0)

\* the message of the Error the rejection handler of the interceptor throws
ErrorInterceptor(error) ==
  IF error.kind = "response"
    THEN OrElse(error.body.data, "error_message",
           OrElse(error.body.data, "message",
             Message("API Error: ", error.status)))
  ELSE IF error.kind = "request"
    THEN Message("Network error: Could not reach server", 0)
  ELSE IF error.message # "" THEN Message(error.message, 0)
  ELSE Message("An unexpected error occurred", 0)

\* no request yet
NoRequest == [method |-> "none", outcome |-> CHOOSE o \in AxiosOutcomes : o.kind = "success"]

NoApiResult == [state |-> "pending", thrown |-> <<>>]

ApiIdle == apiCall = NoRequest /\ apiResult = NoApiResult

\* The promise of the request settles: the response is returned to the
\* caller, or the interceptor throws its Error to the caller.
ApiSettle ==
  /\ apiCall.method # "none"
  /\ apiResult.state = "pending"
  /\ apiResult' =
       IF apiCall.outcome.kind = "success"
         THEN [state |-> "returned", thrown |-> <<>>]
         ELSE [state |-> "rejected", thrown |-> <<ErrorInterceptor(apiCall.outcome)>>]
  /\ UNCHANGED apiCall
  /\ UNCHANGED <<pollVars, resultVars, pipelineVars, livenessVars, evidenceVars>>

----------------------------------------------------------------------------

PollingInit ==
  /\ hook \in {"usePolling", "useAnalysis"}
  /\ condition \in {{}, {"done", "failed"}}
  /\ hook = "useAnalysis" => condition = {"done", "failed"}
  /\ component = "none"
  /\ usePolling = [data |-> NoData, isLoading |-> TRUE, error |-> NoError,
                   intervalRef |-> 0, shouldStopRef |-> FALSE]
  /\ useAnalysis = [status |-> NoData, isLoading |-> TRUE, error |-> NoError]
  /\ pollEffect = <<>>
  /\ analysisEffect = <<>>
  /\ timers = {}
  /\ inflight = <<>>
  /\ server = [id \in Ids |-> "queued"]
  /\ navigate = <<>>
  /\ conditionArg = NoData

\* no ResultPage is shown
ResultPageIdle ==
  /\ resultPage = [id |-> "none", mounted |-> "none", analysis |-> NoAnalysis,
                   isLoading |-> TRUE, error |-> "null"]
  /\ resultFetch = [state |-> "idle", resp |-> NoAnswer]
  /\ resultRedirect = 0

Init == PollingInit /\ ResultPageIdle /\ PipelineIdle /\ LivenessIdle /\ EvidenceIdle /\ ApiIdle

Next ==
  \/ \E i \in 1..MaxInFlight : Respond(i)
  \/ \E f \in Ids : UsePollingEffect(f)
  \/ UsePollingUnmount
  \/ \E t \in 1..MaxEffects : UsePollingTick(t)
  \/ \E i \in 1..MaxInFlight : UsePollingSettle(i)
  \/ \E id \in Ids : UseAnalysisEffect(id)
  \/ UseAnalysisUnmount
  \/ \E t \in 1..MaxEffects : UseAnalysisTick(t)
  \/ \E i \in 1..MaxInFlight : UseAnalysisSettle(i)

Spec == Init /\ [][Next]_vars

\* Scheduling of usePolling: an interval timer that is active keeps
\* firing, the server answers every probe and every promise settles.
PollingFairness ==
  /\ \A t \in 1..MaxEffects : WF_vars(UsePollingTick(t))
  /\ \A i \in 1..MaxInFlight : WF_vars(Respond(i))
  /\ \A i \in 1..MaxInFlight : WF_vars(UsePollingSettle(i))

\* a consumer of usePolling, under that scheduling
UsePollingInit == Init /\ hook = "usePolling"

UsePollingNext ==
  \/ \E i \in 1..MaxInFlight : Respond(i)
  \/ \E f \in Ids : UsePollingEffect(f)
  \/ UsePollingUnmount
  \/ \E t \in 1..MaxEffects : UsePollingTick(t)
  \/ \E i \in 1..MaxInFlight : UsePollingSettle(i)

SpecFair == UsePollingInit /\ [][UsePollingNext]_vars /\ PollingFairness

\* The polling hooks are not in use (no step of theirs is taken).
PollingIdle == PollingInit /\ hook = "useAnalysis"

ResultPageInit == PollingIdle /\ ResultPageIdle /\ PipelineIdle /\ LivenessIdle /\ EvidenceIdle /\ ApiIdle

ResultPageNext ==
  \/ \E id \in Ids \cup {"none"} : ResultPageMount(id)
  \/ \E a \in Answers : ResultPageRespond(a)
  \/ ResultPageSettle
  \/ ResultPageUnmount

SpecResultPage == ResultPageInit /\ [][ResultPageNext]_vars

PipelineInit ==
  /\ PollingIdle
  /\ ResultPageIdle
  /\ \E ingest \in Optional("ingest", IngestObjects),
        face \in Optional("face", FaceObjects),
        roi \in Optional("roi", RoiObjects),
        rppg \in Optional("rppg", RppgObjects) :
       metrics = PipelineMetrics(ingest, face, roi, rppg)
  /\ stages = <<>>
  /\ LivenessIdle
  /\ EvidenceIdle
  /\ ApiIdle

PipelineNext == PipelineRender

SpecPipeline == PipelineInit /\ [][PipelineNext]_vars

LivenessInit ==
  /\ PollingIdle
  /\ ResultPageIdle
  /\ PipelineIdle
  /\ \E liveness_score \in Optional("liveness_score", Values),
        tau_auth \in Optional("tau_auth", Values),
        features \in Optional("features", ObjectsOver(FeatureKeys, FeatureDetails)),
        gate_factor \in Optional("gate_factor", GateFactors),
        base_score \in Optional("base_score", BaseScores) :
       \E scoring \in Optional("scoring",
                               {ScoringBreakdown(liveness_score, tau_auth, features,
                                                 gate_factor, base_score)}),
          feats \in Optional("features", {EmptyObject, [liveness |-> SomeLiveness]}) :
         metricsSummary = MetricsSummary(scoring, feats)
  /\ panel = NoPanel
  /\ EvidenceIdle
  /\ ApiIdle

LivenessNext == LivenessRender

SpecLiveness == LivenessInit /\ [][LivenessNext]_vars

EvidenceInit ==
  /\ PollingIdle
  /\ ResultPageIdle
  /\ PipelineIdle
  /\ LivenessIdle
  /\ \E roi_masks \in Optional("roi_masks", PathLists),
        rppg_traces \in Optional("rppg_traces", PathLists),
        rppg_spectra \in Optional("rppg_spectra", PathLists),
        summary \in Optional("summary", {SummaryPath}),
        resolved \in SUBSET (Paths \cup {SummaryPath}) :
       evidence = EvidenceResponse(roi_masks, rppg_traces, rppg_spectra,
                                   summary, resolved)
  /\ imageErrors = {}
  /\ ApiIdle

EvidenceNext == \E path \in Paths : EvidenceImageError(path)

SpecEvidence == EvidenceInit /\ [][EvidenceNext]_vars

ApiInit ==
  /\ PollingIdle
  /\ ResultPageIdle
  /\ PipelineIdle
  /\ LivenessIdle
  /\ EvidenceIdle
  /\ apiCall \in [method : ApiMethods, outcome : AxiosOutcomes]
  /\ apiResult = NoApiResult

ApiNext == ApiSettle

SpecApi == ApiInit /\ [][ApiNext]_vars

-----------------------------------------------------------------------------
\* The routes /analysis/:id (ProgressPage) and /analysis/:id/result
\* (ResultPage) of App.tsx and the redirects between them.

\* The user opens /analysis/:id/result.
RouterOpenResult ==
  /\ component = "none"
  /\ ResultPageMount(FirstId)

\* The user opens /analysis/:id.
RouterOpenProgress ==
  /\ resultPage.mounted = "none"
  /\ UseAnalysisEffect(FirstId)

\* The server answers ResultPage's api.getAnalysis(id) with the job's status
\* at that moment, or the request fails.
RouterResultRespond ==
  /\ resultFetch.state = "pending"
  /\ \E a \in Answers :
       /\ a.ok => a.status \in LaterStatus(server[resultPage.id])
       /\ resultFetch' = [state |-> "answered", resp |-> a]
       /\ server' = IF a.ok THEN [server EXCEPT ![resultPage.id] = a.status]
                    ELSE server
  /\ UNCHANGED <<resultPage, resultRedirect>>
  /\ UNCHANGED <<hook, condition, component, usePolling, useAnalysis, pollEffect,
                 analysisEffect, timers, inflight, navigate, conditionArg>>
  /\ UNCHANGED <<pipelineVars, livenessVars, evidenceVars, apiVars>>

\* ResultPage's navigate(`/analysis/${id}`, { replace: true }) takes effect:
\* the router renders a new ProgressPage, whose useAnalysis starts with
\* fresh state and runs its effect.
RouterToProgress ==
  /\ resultPage.mounted = "unmounted"
  /\ component # "mounted"
  /\ Len(analysisEffect) < MaxEffects
  /\ Len(inflight) < MaxInFlight
  /\ LET g == Len(analysisEffect) + 1
         id == resultPage.id
     IN /\ useAnalysis' = [status |-> NoData, isLoading |-> TRUE, error |-> NoError]
        /\ analysisEffect' = Append(analysisEffect,
               [isMounted |-> TRUE, intervalId |-> g,
                status |-> NoData, analysisId |-> id])
        /\ inflight' = Append(inflight, Probe(g, id))
        /\ timers' = timers \cup {g}
        /\ navigate' = ProgressPageEffect(NoData, "none", NoData, id, navigate)
  /\ component' = "mounted"
  /\ UNCHANGED resultVars
  /\ UNCHANGED <<hook, condition, usePolling, pollEffect, server, conditionArg>>
  /\ UNCHANGED <<pipelineVars, livenessVars, evidenceVars, apiVars>>

\* ProgressPage's navigate(`/analysis/${id}/result`, { replace: true }) takes
\* effect: ProgressPage unmounts (cleanup of useAnalysis) and the router
\* renders a new ResultPage, which fetches the job.
RouterToResult ==
  /\ component = "mounted"
  /\ navigate # <<>>
  /\ LET c == AnalysisCleanup(analysisEffect, timers)
     IN /\ analysisEffect' = c.effects
        /\ timers' = c.timers
  /\ component' = "unmounted"
  /\ navigate' = <<>>
  /\ resultPage' = [id |-> Head(navigate), mounted |-> "mounted",
                    analysis |-> NoAnalysis, isLoading |-> TRUE, error |-> "null"]
  /\ resultFetch' = [state |-> "pending", resp |-> NoAnswer]
  /\ UNCHANGED resultRedirect
  /\ UNCHANGED <<hook, condition, usePolling, useAnalysis, pollEffect, inflight,
                 server, conditionArg>>
  /\ UNCHANGED <<pipelineVars, livenessVars, evidenceVars, apiVars>>

RouterInit == ResultPageInit

RouterNext ==
  \/ RouterOpenResult
  \/ RouterOpenProgress
  \/ RouterResultRespond
  \/ ResultPageSettle
  \/ RouterToProgress
  \/ RouterToResult
  \/ \E i \in 1..MaxInFlight : Respond(i)
  \/ \E t \in 1..MaxEffects : UseAnalysisTick(t)
  \/ \E i \in 1..MaxInFlight : UseAnalysisSettle(i)

SpecRouter == RouterInit /\ [][RouterNext]_vars

----------------------------------------------------------------------------
\* Shared notions of the properties

\* the hook state the consumer sees
Exposed == IF hook = "usePolling" THEN usePolling ELSE useAnalysis

\* the closures of the effect runs of the observed hook
Effects == IF hook = "usePolling" THEN pollEffect ELSE analysisEffect

\* effect run g has been cancelled: its cleanup has run
Cancelled(g) == g \in DOMAIN Effects /\ (g < Len(Effects) \/ component = "unmounted")

\* the step issues a probe (probes are appended to inflight)
Issues == Len(inflight') = Len(inflight) + 1

\* the step settles probe i (its promise resolves or rejects)
Settles(i) == i \in DOMAIN inflight /\ inflight' = RemoveAt(inflight, i)

\* number of probes of effect run g in the queue q
InFlightIn(q, g) == Cardinality({i \in DOMAIN q : q[i].owner = g})

\* number of probes of effect run g that are in flight
InFlightOf(g) == InFlightIn(inflight, g)

\* the step issues a probe of effect run g
IssuesFor(g) == Issues /\ inflight'[Len(inflight')].owner = g

\* an effect run whose interval timer is not active gets no timer back and
\* issues no probe in the step
StoppedStaysStopped ==
  \A g \in DOMAIN Effects :
     g \notin timers => (g \notin timers' /\ ~IssuesFor(g))

----------------------------------------------------------------------------
\* C1: single-flight -- for one polling handle (one run of the effect of
\* usePolling or useAnalysis) at most one probe is in flight at any time.
C1_SingleFlight == \A g \in DOMAIN Effects : InFlightOf(g) <= 1

\* C2: once useAnalysis has stored a done/failed response for the analysis
\* id it tracks, no interval tick and no probe completion issues a further
\* probe for that id.
C2_NoProbeAfterTerminal ==
  [][ ( /\ hook = "useAnalysis"
        /\ IsTerminal(useAnalysis.status)
        /\ useAnalysis.status.analysis_id = AnalysisId
        /\ analysisEffect' = analysisEffect )
      => ~Issues ]_vars

\* C2 witness: a terminal status is stored for the tracked id by an effect
\* whose interval callback was polling (its captured status is non-terminal).
C2_Witness ==
  /\ hook = "useAnalysis"
  /\ component = "mounted"
  /\ IsTerminal(useAnalysis.status)
  /\ useAnalysis.status.analysis_id = AnalysisId
  /\ AnalysisCallbackFetches(analysisEffect[Len(analysisEffect)])

\* C3: while the status observed for the tracked id is queued or running,
\* no probe has failed and the consumer is mounted, the tracker keeps
\* polling: some active interval timer's callback issues the next probe.
C3_ContinuesPolling ==
  ( /\ hook = "useAnalysis"
    /\ component = "mounted"
    /\ useAnalysis.status.status \in {"queued", "running"}
    /\ useAnalysis.status.analysis_id = AnalysisId
    /\ useAnalysis.error = NoError )
  => \E t \in timers : AnalysisCallbackFetches(analysisEffect[t])

\* C4: ProgressPage's navigation to the result page is raised in a step
\* exactly when that step changes the observed status into done (once per
\* transition into done, with the tracked id as target); a state update
\* that repeats done, or one that delivers queued, running or failed, does
\* not raise it.
C4_JustCompletedOnce ==
  [][ /\ (navigate' # navigate) <=>
            ( /\ StatusOf(useAnalysis'.status) = "done"
              /\ StatusOf(useAnalysis.status) # "done" )
      /\ (navigate' # navigate) => navigate' = Append(navigate, AnalysisId) ]_vars

\* C4 witness: done was observed, the navigation was raised once, and a
\* further done response of the same mounted effect is about to be delivered.
C4_Witness ==
  /\ hook = "useAnalysis"
  /\ Len(navigate) = 1
  /\ StatusOf(useAnalysis.status) = "done"
  /\ \E i \in DOMAIN inflight :
        /\ inflight[i].resp = "done"
        /\ analysisEffect[inflight[i].owner].isMounted

\* C5: when a probe of a mounted effect run rejects, the error is exposed
\* and that run's interval timer is cleared; a run whose timer is cleared
\* never gets a timer again and issues no further probe.
C5_FailureIsTerminal ==
  [][ /\ \A i \in 1..MaxInFlight :
           ( /\ Settles(i)
             /\ inflight[i].resp = "error"
             /\ Effects[inflight[i].owner].isMounted )
           => /\ Exposed'.error = ErrorOf(inflight[i].id, inflight[i].owner)
              /\ ~Exposed'.isLoading
              /\ inflight[i].owner \notin timers'
      /\ StoppedStaysStopped ]_vars

\* C5 witness: the mounted effect run has had a probe rejected; its error
\* is exposed and its timer is gone.
C5_Witness ==
  /\ component = "mounted"
  /\ Exposed.error # NoError
  /\ Exposed.error.handle = Len(Effects)
  /\ Len(Effects) \notin timers

\* C6: after an effect run's cleanup no timer of that run is active and
\* the run issues no probe, and a probe of that run that settles
\* afterwards leaves the hook's state (and ProgressPage) unchanged.
C6_Cancellation ==
  /\ [](\A t \in timers : ~Cancelled(t))
  /\ [][ /\ \A i \in 1..MaxInFlight :
              (Settles(i) /\ Cancelled(inflight[i].owner))
              => UNCHANGED <<usePolling, useAnalysis, navigate, timers>>
         /\ \A g \in DOMAIN Effects : Cancelled(g) => ~IssuesFor(g) ]_vars

\* C6 witness: the effect was restarted by a dependency change while the
\* cancelled run still has a probe in flight whose response has arrived.
C6_Witness ==
  /\ component = "mounted"
  /\ \E i \in DOMAIN inflight :
        /\ Cancelled(inflight[i].owner)
        /\ inflight[i].resp # "pending"
        /\ inflight[i].id # Exposed.error.analysis_id

\* C7: usePolling calls condition only with the value a successful probe
\* delivered (the data it stores), and when condition accepts a delivered
\* value the handle's timer is cleared and shouldStopRef set, after which
\* the handle schedules and issues no probe.
C7_StopCondition ==
  /\ [](conditionArg = usePolling.data)
  /\ [][ /\ \A i \in 1..MaxInFlight :
              ( /\ hook = "usePolling"
                /\ Settles(i)
                /\ inflight[i].resp \in condition
                /\ pollEffect[inflight[i].owner].isMounted )
              => /\ usePolling'.shouldStopRef
                 /\ inflight[i].owner \notin timers'
         /\ (hook = "usePolling" => StoppedStaysStopped) ]_vars

\* C7 witness: a delivered value satisfied the stop condition.
C7_Witness ==
  /\ hook = "usePolling"
  /\ component = "mounted"
  /\ usePolling.data.status \in condition
  /\ usePolling.error = NoError
  /\ usePolling.shouldStopRef
  /\ timers = {}

\* C8: every start of the effect of usePolling and of useAnalysis issues
\* exactly one probe in the starting step, for the new run and its
\* dependency, before any interval tick.
C8_ImmediateProbe ==
  [][ /\ Len(pollEffect') > Len(pollEffect) =>
            inflight' = Append(inflight,
                Probe(Len(pollEffect'), pollEffect'[Len(pollEffect')].fetchFn))
      /\ Len(analysisEffect') > Len(analysisEffect) =>
            inflight' = Append(inflight,
                Probe(Len(analysisEffect'),
                      analysisEffect'[Len(analysisEffect')].analysisId)) ]_vars

\* C8 witness: usePolling's effect was restarted after polling had stopped
\* (no interval was set up for the new run) and the new run's probe is in flight.
C8_Witness ==
  /\ hook = "usePolling"
  /\ Len(pollEffect) >= 2
  /\ usePolling.intervalRef < Len(pollEffect)
  /\ InFlightOf(Len(pollEffect)) = 1

\* C9: what useAnalysis exposes for the tracked id, the status its interval
\* callback decides on and ProgressPage's navigation never derive from a
\* value fetched for another id.
C9_NoSharedState ==
  (hook = "useAnalysis" /\ component = "mounted") =>
     /\ useAnalysis.status.analysis_id \in {"none", AnalysisId}
     /\ useAnalysis.error.analysis_id \in {"none", AnalysisId}
     /\ analysisEffect[Len(analysisEffect)].status.analysis_id \in {"none", AnalysisId}
     /\ navigate # <<>> => useAnalysis.status.analysis_id = navigate[Len(navigate)]

\* C10: once a probe failure of a handle has set error, no later probe
\* completion of the same handle resets error to null.
C10_ErrorTerminal ==
  [][ \A i \in 1..MaxInFlight :
         ( /\ Settles(i)
           /\ Exposed.error # NoError
           /\ Exposed.error.handle = inflight[i].owner )
         => Exposed'.error # NoError ]_vars


----------------------------------------------------------------------------
\* Claims about ResultPage (specification SpecResultPage)

\* the job ResultPage fetched is done and carries no result_json
DoneWithoutResult ==
  /\ resultPage.mounted = "mounted"
  /\ resultFetch.state = "settled"
  /\ resultFetch.resp.ok
  /\ resultFetch.resp.status = "done"
  /\ ~resultFetch.resp.result_json.present

----------------------------------------------------------------------------
\* Claims about PipelineDiagram (specification SpecPipeline)

StageIds == <<"ingest", "face", "roi", "rppg">>

\* PipelineDiagram has rendered its stages
Rendered == Len(stages) > 0

\* the status rendered for the stage with this id
StageStatusOf(id) ==
  (CHOOSE st \in {stages[k] : k \in 1..Len(stages)} : st.id = id).status

\* the payload has the sub-object sub with all of these fields
Has(sub, fields) == sub \in DOMAIN metrics /\ fields \subseteq DOMAIN metrics[sub]

\* C12: the ROI stage is Ok iff total_frames > 0 and
\* frames_with_all_regions_valid > 0, Warning iff total_frames > 0 and
\* frames_with_all_regions_valid = 0, Fail iff total_frames = 0.
C12_RoiStatus ==
  Rendered /\ Has("roi", {"total_frames", "frames_with_all_regions_valid"}) =>
    LET total == metrics.roi.total_frames
        allValid == metrics.roi.frames_with_all_regions_valid
        status == StageStatusOf("roi")
    IN /\ status = "ok" <=> (total > 0 /\ allValid > 0)
       /\ status = "warning" <=> (total > 0 /\ allValid = 0)
       /\ status = "fail" <=> total = 0

\* frames were read but none had all regions valid: Warning
C12_Witness ==
  /\ Rendered
  /\ Has("roi", {"total_frames", "frames_with_all_regions_valid"})
  /\ metrics.roi.total_frames > 0
  /\ metrics.roi.frames_with_all_regions_valid = 0
  /\ StageStatusOf("roi") = "warning"

\* C13: the rPPG stage is Ok iff duration_seconds > 0 and the sum of
\* samples_per_region > 0, Warning iff both are 0, Fail otherwise.
C13_RppgStatus ==
  Rendered /\ Has("rppg", {"duration_seconds", "samples_per_region"}) =>
    LET duration == metrics.rppg.duration_seconds
        sum == TotalSamples(metrics.rppg.samples_per_region)
        status == StageStatusOf("rppg")
    IN /\ status = "ok" <=> (duration > 0 /\ sum > 0)
       /\ status = "warning" <=> (duration = 0 /\ sum = 0)
       /\ status = "fail" <=> ~(duration > 0 /\ sum > 0) /\ ~(duration = 0 /\ sum = 0)

\* a duration without samples (in two regions): Fail
C13_Witness ==
  /\ Rendered
  /\ Has("rppg", {"duration_seconds", "samples_per_region"})
  /\ metrics.rppg.duration_seconds > 0
  /\ DOMAIN metrics.rppg.samples_per_region = Regions
  /\ TotalSamples(metrics.rppg.samples_per_region) = 0
  /\ StageStatusOf("rppg") = "fail"

\* C14: Ingest and Face are never Warning; Ingest is Ok iff num_windows >= 1
\* and Fail otherwise; Face is Ok iff at least one window has a face and
\* Fail otherwise.
C14_IngestFaceStatus ==
  Rendered =>
    LET ingest == StageStatusOf("ingest")
        face == StageStatusOf("face")
        hasWindow == Has("ingest", {"num_windows"}) /\ metrics.ingest.num_windows >= 1
        hasFace == /\ Has("face", {"windows"})
                   /\ metrics.face.windows.isArray
                   /\ metrics.face.windows.length >= 1
    IN /\ ingest = IF hasWindow THEN "ok" ELSE "fail"
       /\ face = IF hasFace THEN "ok" ELSE "fail"

\* windows were read and none of them has a face
C14_Witness ==
  /\ Rendered
  /\ Has("ingest", {"num_windows"}) /\ metrics.ingest.num_windows >= 1
  /\ Has("face", {"windows"}) /\ metrics.face.windows = EmptyArray
  /\ StageStatusOf("ingest") = "ok"
  /\ StageStatusOf("face") = "fail"

\* the payload with only the sub-object sub of m
Only(m, sub) ==
  IF sub \in DOMAIN m THEN [f \in {sub} |-> m[sub]] ELSE EmptyObject

\* C15: the deriver produces exactly four stages in the order ingest, face,
\* roi, rppg, and the status of each is the one derived from its own
\* sub-object alone, whatever the other sub-objects are.
C15_FourIndependentStages ==
  Rendered =>
    /\ Len(stages) = 4
    /\ \A k \in 1..4 :
         /\ stages[k].id = StageIds[k]
         /\ stages[k].status = PipelineDiagram(Only(metrics, StageIds[k]))[k].status

\* ingest failed and the three later stages did not
C15_Witness ==
  /\ Rendered
  /\ StageStatusOf("ingest") = "fail"
  /\ StageStatusOf("face") = "ok"
  /\ StageStatusOf("roi") = "warning"
  /\ StageStatusOf("rppg") = "ok"


\* the payload in which every missing count is 0 and every missing region
\* map is empty
Filled(m) ==
  LET field(sub, f, d) ==
        IF sub \in DOMAIN m /\ f \in DOMAIN m[sub] THEN m[sub][f] ELSE d
  IN [ingest |-> [num_windows |-> field("ingest", "num_windows", 0)],
      face |-> [windows |-> field("face", "windows", [isArray |-> TRUE, length |-> 0])],
      roi |-> [total_frames |-> field("roi", "total_frames", 0),
               frames_with_all_regions_valid |->
                 field("roi", "frames_with_all_regions_valid", 0)],
      rppg |-> [duration_seconds |-> field("rppg", "duration_seconds", 0),
                samples_per_region |->
                  field("rppg", "samples_per_region", EmptyObject)]]

\* something is missing from the payload
Incomplete(m) == m # Filled(m)

\* C16: whatever sub-objects or fields are missing from the payload, the
\* deriver does not raise, and the four statuses are those of the payload
\* with the missing counts set to 0 and the missing region maps empty.
C16_MissingIsZero ==
  Rendered =>
    /\ \A k \in 1..Len(stages) : stages[k].status \in StageStatus
    /\ stages = PipelineDiagram(Filled(metrics))

\* a payload without face and roi, and with an rppg without samples, was
\* rendered
C16_Witness ==
  /\ Rendered
  /\ DOMAIN metrics = {"ingest", "rppg"}
  /\ DOMAIN metrics.rppg = {"duration_seconds"}
  /\ metrics.rppg.duration_seconds > 0
  /\ Incomplete(metrics)
  /\ StageStatusOf("rppg") = "fail"

\* C17 as stated: for each of the four stages, when the sub-object of the
\* stage is missing from the payload, the status of the stage is Fail.
C17_MissingIsFail ==
  Rendered =>
    \A k \in 1..4 : StageIds[k] \notin DOMAIN metrics =>
                      StageStatusOf(StageIds[k]) = "fail"

\* C17, amended: when its sub-object is missing, the status of the ingest,
\* face and roi stage is Fail, and the status of the rppg stage is Warning.
C17_MissingStage ==
  Rendered =>
    \A k \in 1..4 : StageIds[k] \notin DOMAIN metrics =>
       StageStatusOf(StageIds[k]) = IF StageIds[k] = "rppg" THEN "warning"
                                    ELSE "fail"

\* a payload without face and without rppg was rendered
C17_Witness ==
  /\ Rendered
  /\ DOMAIN metrics = {"ingest", "roi"}
  /\ StageStatusOf("face") = "fail"
  /\ StageStatusOf("rppg") = "warning"


----------------------------------------------------------------------------
\* Claims about LivenessPanel (specification SpecLiveness)

\* the rows of the feature breakdown that were rendered
Rows == {panel.bars[k] : k \in 1..Len(panel.bars)}

\* C18: the label of a feature value v is Strong for v >= 0.7, Moderate for
\* 0.4 <= v < 0.7, Weak for 0 < v < 0.4 and None for v = 0; 0.7 and 0.4
\* themselves get the higher label.
C18_ValueLabel ==
  \A row \in Rows :
    /\ row.value >= 70 => row.valueLabel = "Strong"
    /\ (40 <= row.value /\ row.value < 70) => row.valueLabel = "Moderate"
    /\ (0 < row.value /\ row.value < 40) => row.valueLabel = "Weak"
    /\ row.value = 0 => row.valueLabel = "None"

\* rows with the values 0.7 and 0.4 exist at different times; this one is
\* the row of 0.7, labelled Strong
C18_Witness ==
  \E row \in Rows : row.value = 70 /\ row.valueLabel = "Strong"

\* the tier of a color class and of a label
ColorTier(color) ==
  IF color \in {"bg-emerald-500", "text-emerald-400"} THEN "top"
  ELSE IF color \in {"bg-amber-500", "text-amber-400"} THEN "middle"
  ELSE "bottom"

LabelTier(label) ==
  IF label = "Strong" THEN "top"
  ELSE IF label = "Moderate" THEN "middle"
  ELSE "bottom"

\* C19: for every feature value the color of the bar and the color of the
\* label badge are of the tier of the label (top: Strong, middle: Moderate,
\* bottom: Weak or None), the tiers being split at 0.7 and 0.4.
C19_ColorTier ==
  \A row \in Rows :
    /\ ColorTier(row.bar) = LabelTier(row.valueLabel)
    /\ ColorTier(row.badge) = LabelTier(row.valueLabel)
    /\ ColorTier(row.bar) = "top" <=> row.value >= 70
    /\ ColorTier(row.bar) = "bottom" <=> row.value < 40

\* a row of value 0.4: Moderate, with the middle colors
C19_Witness ==
  \E row \in Rows :
    /\ row.value = 40
    /\ row.valueLabel = "Moderate"
    /\ row.bar = "bg-amber-500"
    /\ row.badge = "text-amber-400"

\* C20 as stated: whenever the scoring breakdown carries a liveness_score,
\* what LivenessPanel renders shows its position: human-leaning iff
\* liveness_score >= tau_auth (0.45 when tau_auth is absent), also when
\* the features are absent.
C20_ScorePosition ==
  LET scoring == Get(metricsSummary, "scoring", EmptyObject)
  IN panel.view # "none" /\ "liveness_score" \in DOMAIN scoring =>
       /\ Len(panel.score) = 1
       /\ panel.score[1].color = "bg-emerald-500" <=>
            scoring.liveness_score >=
              (IF "tau_auth" \in DOMAIN scoring THEN scoring.tau_auth ELSE 45)


\* C21 as stated: whenever gate_factor is present and below 1.0, what
\* LivenessPanel renders has the gating message, with the base score (when
\* there is one) next to the gated liveness score; when gate_factor is
\* absent or 1.0, there is no gating message.
C21_GatingMessage ==
  LET scoring == Get(metricsSummary, "scoring", EmptyObject)
      gated == "gate_factor" \in DOMAIN scoring /\ scoring.gate_factor < 100
      messages == {k \in 1..Len(panel.score) : panel.score[k].gateMessage}
  IN panel.view # "none" =>
       IF gated
         THEN /\ messages # {}
              /\ "base_score" \in DOMAIN scoring =>
                   panel.score[1].baseScore = <<scoring.base_score>>
         ELSE messages = {}


----------------------------------------------------------------------------
\* Claims about EvidenceViewer (specification SpecEvidence)

\* what is on display
View == EvidenceViewer(evidence, imageErrors)

\* the paths of a list that have a signed URL (and whose image has not
\* failed), in the order of the list
Resolvable(paths) ==
  LET Usable(path) == path \in DOMAIN evidence.signed_urls /\ path \notin imageErrors
  IN SelectSeq(paths, Usable)

\* C22 as stated: for every artifact category of the index the rendered
\* entries are exactly the index paths with a signed URL, in index order,
\* and a path without a signed URL is dropped, never shown as a listed but
\* unresolved entry; the summary is one of the categories.
C22_ResolvedEntries ==
  LET artifacts == evidence.index.artifacts
  IN /\ \A c \in ImageCategories \cap DOMAIN artifacts :
          LET paths == Resolvable(artifacts[c])
          IN View[c].entries =
               [k \in 1..Len(paths) |->
                  [path |-> paths[k], url |-> evidence.signed_urls[paths[k]]]]
     /\ "summary" \in DOMAIN artifacts =>
          View.summary = IF artifacts.summary \in DOMAIN evidence.signed_urls
                           THEN "link" ELSE "none"

\* C23 as stated: a category (roi_masks, rppg_traces, rppg_spectra) that
\* is in the index and has no path that resolves, an empty list included,
\* is reported as unavailable; a category that is not in the index is not
\* reported at all.
C23_UnavailableOrAbsent ==
  LET artifacts == evidence.index.artifacts
  IN \A c \in ImageCategories :
       View[c].section =
         IF c \notin DOMAIN artifacts THEN "none"
         ELSE IF Len(Resolvable(artifacts[c])) = 0 THEN "unavailable"
         ELSE "entries"

\* a sequence without the entries of a path
WithoutPath(entries, path) ==
  LET Other(entry) == entry.path # path
  IN SelectSeq(entries, Other)

\* C24: the load failure of an image removes the entries of exactly its
\* path and leaves every other entry, of the same and of the other
\* categories, and the summary as they were; the set of failed paths only
\* grows, so that no removed entry comes back.
C24_ImageErrorScope ==
  [][/\ imageErrors \subseteq imageErrors'
     /\ imageErrors' # imageErrors =>
          \E path \in RenderedPaths(evidence, imageErrors) :
            /\ imageErrors' \ imageErrors = {path}
            /\ \A c \in ImageCategories :
                 EvidenceViewer(evidence', imageErrors')[c].entries =
                   WithoutPath(View[c].entries, path)
            /\ EvidenceViewer(evidence', imageErrors').summary = View.summary]_vars

\* the image of a.png failed in a viewer whose traces are a.png and b.png;
\* b.png and the link of the summary are still on display
C24_Witness ==
  /\ imageErrors = {"a.png"}
  /\ "rppg_traces" \in DOMAIN evidence.index.artifacts
  /\ evidence.index.artifacts.rppg_traces = <<"a.png", "b.png">>
  /\ View.rppg_traces.entries = <<[path |-> "b.png", url |-> "https://x/b"]>>
  /\ View.summary = "link"


----------------------------------------------------------------------------
\* Claims about ApiClient (specification SpecApi)

\* the message of a failed request that got no response, or no request
NoResponseMessage(error) ==
  IF error.kind = "request" THEN Message("Network error: Could not reach server", 0)
  ELSE IF error.message # "" THEN Message(error.message, 0)
  ELSE Message("An unexpected error occurred", 0)

\* C25 as stated: a failed request throws exactly one Error; for an error
\* response its message is the body's error_message if the body has one,
\* else the body's message if it has one, else 'API Error: <status>'; for
\* a request without response it is 'Network error: Could not reach
\* server' (else the underlying message or 'An unexpected error occurred').
C25_ErrorMapping ==
  apiResult.state = "rejected" =>
    /\ Len(apiResult.thrown) = 1
    /\ LET error == apiCall.outcome
           data == error.body.data
       IN apiResult.thrown[1] =
            IF error.kind # "response" THEN NoResponseMessage(error)
            ELSE IF "error_message" \in DOMAIN data THEN Message(data.error_message, 0)
            ELSE IF "message" \in DOMAIN data THEN Message(data.message, 0)
            ELSE Message("API Error: ", error.status)

\* C25, amended: as above, with an empty error_message or message of the
\* body passed over like a missing one.
C25_ErrorMappingNonEmpty ==
  apiResult.state = "rejected" =>
    /\ Len(apiResult.thrown) = 1
    /\ LET error == apiCall.outcome
           data == error.body.data
           has(f) == f \in DOMAIN data /\ data[f] # ""
       IN apiResult.thrown[1] =
            IF error.kind # "response" THEN NoResponseMessage(error)
            ELSE IF has("error_message") THEN Message(data.error_message, 0)
            ELSE IF has("message") THEN Message(data.message, 0)
            ELSE Message("API Error: ", error.status)

\* an error response with an error_message and a message was surfaced
\* as its error_message
C25_Witness ==
  /\ apiResult.state = "rejected"
  /\ apiCall.outcome.kind = "response"
  /\ DOMAIN apiCall.outcome.body.data = {"error_message", "message"}
  /\ apiCall.outcome.body.data.message = "Internal error"
  /\ apiResult.thrown = <<Message("Job not found", 0)>>


----------------------------------------------------------------------------
\* Further claims about the polling hooks (specification Spec)

\* the job status the hook exposes: data of usePolling, status of useAnalysis
ExposedStatus == IF hook = "usePolling" THEN usePolling.data ELSE useAnalysis.status

\* C26 as stated: with a server whose job status never reverts, the status
\* a polling handle exposes for a job never reverts: once it has exposed
\* done or failed, it does not expose queued or running afterwards.
C26_StatusNeverReverts ==
  [][( /\ ExposedStatus.status \in {"done", "failed"}
       /\ ExposedStatus'.analysis_id = ExposedStatus.analysis_id )
     => ExposedStatus'.status \notin {"queued", "running"}]_vars


\* C27 as stated: a mounted usePolling is never silently stalled: when no
\* probe is in flight and no interval timer is active, the latest data
\* satisfies the stop condition or error is not null.
C27_NoSilentStall ==
  ( /\ hook = "usePolling"
    /\ component = "mounted"
    /\ inflight = <<>>
    /\ timers = {} )
  => \/ usePolling.data.status \in condition
     \/ usePolling.error # NoError


\* every answer in flight satisfies the stop condition
AnswersSatisfy ==
  \A i \in DOMAIN inflight : inflight[i].resp \in condition \cup {"pending"}

C29_FreshCycle ==
  [][( /\ hook = "usePolling"
       /\ Len(pollEffect') > Len(pollEffect) )
     => /\ Len(inflight') > Len(inflight)
        /\ Len(pollEffect') \in timers']_vars

\* ResultPage's fetch settles in the step
ResultFetchSettles ==
  /\ resultFetch.state = "answered"
  /\ resultFetch'.state = "settled"

\* the redirect rules of the two pages: ResultPage navigates to the progress
\* page iff it fetched a status other than done; ProgressPage navigates to
\* the result page iff the status it observes becomes done
RedirectRules ==
  /\ ResultFetchSettles =>
       ( resultRedirect' = resultRedirect + 1
         <=> (resultFetch.resp.ok /\ resultFetch.resp.status # "done") )
  /\ resultRedirect' # resultRedirect => ResultFetchSettles
  /\ Len(navigate') > Len(navigate)
       <=> ( /\ StatusOf(useAnalysis'.status) = "done"
             /\ StatusOf(useAnalysis.status) # "done" )

\* the result page has settled and stays
ResultPageFinal ==
  /\ resultPage.mounted = "mounted"
  /\ resultFetch.state = "settled"

\* C30 as stated: the redirect rules hold, ResultPage redirects at most once
\* (no ping-pong), and the result page is the final page only for a done job.
C30_RedirectsTerminate ==
  /\ [][RedirectRules]_vars
  /\ [](resultRedirect <= 1)
  /\ [](ResultPageFinal => server[resultPage.id] = "done")

\* C30 amended: the redirect rules hold, ResultPage redirects at most once,
\* and the result page is the final page only for a done job or when its
\* fetch failed.
C30_RedirectsTerminateOrFetchFailed ==
  /\ [][RedirectRules]_vars
  /\ [](resultRedirect <= 1)
  /\ [](ResultPageFinal =>
          \/ ~resultFetch.resp.ok
          \/ ( /\ resultFetch.resp.status = "done"
               /\ server[resultPage.id] = "done" ))

\* /result was opened for an unfinished job, redirected to the progress
\* page, which saw the job done and redirected back to the result page
C30_Witness ==
  /\ resultRedirect = 1
  /\ component = "unmounted"
  /\ ResultPageFinal
  /\ resultFetch.resp.ok
  /\ resultPage.analysis.status = "done"
====
